---- MODULE Spec2Model ----
(***************************************************************************)
(* The multi-GPU task scheduler of api_server.py: the /synthesize handler  *)
(* (the event loop's single thread), the dispatch queue, the task store,   *)
(* the per-GPU model cache with its locks, and one worker thread per GPU.  *)
(* Every thread is a small program counter machine; one action is one      *)
(* step a thread performs between two points where another thread can run. *)
(***************************************************************************)
EXTENDS Integers, Sequences, FiniteSets, TLC

\* ------------------------------------------------------------------ bounds
\* Number of /synthesize requests the model follows.
MaxTasks == 2

\* ------------------------------------------------------- values of the code
PENDING == "pending"
PROCESSING == "processing"
COMPLETED == "completed"
FAILED == "failed"

\* Python's None for a string-valued argument or field, and a key that is
\* not in a dict.
None == "<None>"
Absent == "<absent>"
\* `progress: float = None`: no progress argument (progress is kept in tenths).
NoProgress == -1

\* The gateway (event loop) is thread 0; worker_id i runs as thread i + 1.
Gateway == 0

\* uuid4()[:8]: task ids are drawn at random from a finite id space. Ids are
\* opaque, so the ids the generator can return are listed in the order of
\* their first use: a new id is one in use already (a collision) or the
\* first one not used so far.
TaskIds == {"id1", "id2"}
IdOrder == <<"id1", "id2">>

\* lora_name of a request: None, a directory that exists under lora/, one
\* that does not.
LoraNames == {None, "A", "X"}
LoraExists(k) == k = "A"

\* str(e) of an exception the processing routine catches: a message, or the
\* empty string (AssertionError(), Exception()).
ExcTexts == {"err", ""}
\* The texts drawn where the load (line 407) and the save (lines 443-453)
\* raise; the empty one is drawn where inference raises.
SomeExcText == {"err"}
\* str(e) of line 410's Exception(f"Failed to load model on GPU {gpu_id}")
NotLoadedText == "Failed to load model"

\* What the probes of detect_available_gpus can report. torch: the import
\* fails with ImportError ("missing"), the import or a torch.cuda call raises
\* another exception, e.g. OSError for a native library that cannot be
\* loaded ("raise"), CUDA is available with `cuda` devices, or it is not and
\* rocm-smi is run (it raises or exits non-zero, or prints the ids `ids`).
\* `ids` is what lines 109-117 collect: the first all-digit word of every
\* output line that has "GPU" and "Device" in it.
ProbeOutcomes ==
    { [torch |-> "missing", cuda |-> 0, rocm |-> "none", ids |-> << >>],
      [torch |-> "cuda", cuda |-> 1, rocm |-> "none", ids |-> << >>],
      [torch |-> "cuda", cuda |-> 2, rocm |-> "none", ids |-> << >>],
      [torch |-> "nocuda", cuda |-> 0, rocm |-> "raise", ids |-> << >>],
      [torch |-> "nocuda", cuda |-> 0, rocm |-> "ok", ids |-> << >>],
      [torch |-> "nocuda", cuda |-> 0, rocm |-> "ok", ids |-> <<0>>],
      [torch |-> "raise", cuda |-> 0, rocm |-> "none", ids |-> << >>] }

\* rocm-smi prints two such lines with the same number as first all-digit
\* word (two cards of one model whose "Device Name" line has a number in
\* it): lines 109-117 append it twice.
ProbeRepeatedIds == [torch |-> "nocuda", cuda |-> 0, rocm |-> "ok", ids |-> <<0, 0>>]

\* list(range(n))
Range(n) == [i \in 1..n |-> i - 1]

\* The list detect_available_gpus returns when no exception leaves it.
detect_available_gpus(p) ==
    IF p.torch = "missing" THEN <<0, 1>>
    ELSE IF p.torch = "cuda" THEN Range(p.cuda)
    ELSE IF p.rocm = "ok" THEN (IF p.ids # << >> THEN p.ids ELSE <<0, 1>>)
    ELSE <<0, 1>>

\* detect_available_gpus lets the exception through: only ImportError is
\* caught around `import torch` and the torch.cuda calls (lines 99-102, 127).
DetectRaises(p) == p.torch = "raise"

\* lifespan, lines 66-67: what available_gpus holds after startup; it keeps
\* its initial [] (line 36) when detect_available_gpus raised and startup
\* was aborted.
StartupGpus(p) == IF DetectRaises(p) THEN << >> ELSE detect_available_gpus(p)

VARIABLES
    available_gpus,     \* the list lifespan() stores
    task_queue,         \* queue.Queue of (task_id, request_data)
    task_status,        \* dict task_id -> record
    current_models,     \* dict gpu_id -> model
    current_lora_paths, \* dict gpu_id -> lora_name
    model_locks,        \* gpu_id -> the thread inside `with model_locks[gpu_id]`, or -1
    th,                 \* per thread: position and locals of the running call
    http,               \* the response to the latest /synthesize request (code 0: none yet)
    nreq,               \* number of /synthesize requests received
    lastDeq,            \* history: the request number of the entry task_queue.get returned last
    unended             \* history: per thread, the tasks it took whose terminal status is not written

vars == <<available_gpus, task_queue, task_status, current_models,
          current_lora_paths, model_locks, th, http, nreq, lastDeq, unended>>

\* ------------------------------------------------------------------ helpers
GpuIds == {available_gpus[i] : i \in DOMAIN available_gpus}
Workers == 1..Len(available_gpus)
Threads == {Gateway} \cup Workers
Free == -1

\* The application serves requests once lifespan's startup has run through.
Serving == available_gpus # << >>

Truthy(s) == s # None /\ s # ""

IdleThread == [pc |-> "idle", task_id |-> Absent, lora |-> None, sub |-> 0,
               gpu_id |-> 0, model |-> Absent, exc |-> None, result |-> None,
               written |-> FALSE]

NoModel == [state |-> "absent", lora |-> None]
NoneModel == [state |-> "none", lora |-> None]
LoadedModel(k) == [state |-> "obj", lora |-> k]

\* current_lora_paths.get(gpu_id)
LoraPathGet(g) == IF current_lora_paths[g] = Absent THEN None ELSE current_lora_paths[g]

Terminal == {COMPLETED, FAILED}

\* The state lifespan's startup leaves when the probes report one of P.
InitFrom(P) ==
    /\ \E p \in P : available_gpus = StartupGpus(p)
    /\ task_queue = << >>
    /\ task_status = << >>
    /\ current_models = [g \in GpuIds |-> NoModel]
    /\ current_lora_paths = [g \in GpuIds |-> Absent]
    /\ model_locks = [g \in GpuIds |-> Free]
    /\ th = [t \in Threads |-> IdleThread]
    /\ http = [code |-> 0, task_id |-> Absent, status |-> None]
    /\ nreq = 0
    /\ lastDeq = 0
    /\ unended = [t \in Threads |-> {}]

Init == InitFrom(ProbeOutcomes)

\* ------------------------------------------------------------- task store
\* A handler that does not write the initial record.
CreateRecordSkip(ts, id, now) == ts

\* A store that is rebuilt with the new record alone.
CreateRecordAlone(ts, id, now) ==
    [x \in {id} |-> [status |-> PENDING, progress |-> 0, audio_path |-> Absent,
                     error |-> Absent, created_at |-> now]]

\* synthesize_speech, `with task_lock: task_status[task_id] = {...}`: the
\* record is stored under the id whether or not the id is already a key.
CreateRecord(ts, id, now) ==
    [x \in (DOMAIN ts) \cup {id} |->
        IF x = id
        THEN [status |-> PENDING, progress |-> 0, audio_path |-> Absent,
              error |-> Absent, created_at |-> now]
        ELSE ts[x]]

\* An update that makes a record when the id has none.
UpdateOrCreate(ts, id, status, progress, audio_path, error) ==
    [x \in (DOMAIN ts) \cup {id} |->
        IF x = id
        THEN [status |-> status, progress |-> progress, audio_path |-> Absent,
              error |-> Absent, created_at |-> 0]
        ELSE ts[x]]

\* An update that writes every field, None for what the call leaves out.
UpdateEveryField(ts, id, status, progress, audio_path, error) ==
    IF id \in DOMAIN ts
    THEN [ts EXCEPT ![id] =
            [@ EXCEPT !.status = status,
                      !.progress = IF progress # NoProgress THEN progress ELSE 0,
                      !.audio_path = IF Truthy(audio_path) THEN audio_path ELSE Absent,
                      !.error = IF Truthy(error) THEN error ELSE Absent]]
    ELSE ts

\* update_task_status_safe: under task_lock, a record that exists gets the
\* status and every argument that is truthy (progress: that is not None).
update_task_status_safe(ts, id, status, progress, audio_path, error) ==
    IF id \in DOMAIN ts
    THEN [ts EXCEPT ![id] =
            [@ EXCEPT !.status = status,
                      !.progress = IF progress # NoProgress THEN progress ELSE @,
                      !.audio_path = IF Truthy(audio_path) THEN audio_path ELSE @,
                      !.error = IF Truthy(error) THEN error ELSE @]]
    ELSE ts

\* list_tasks, `limit: int = 50`
DefaultLimit == 50

\* list_tasks, `if status:`: a filter is given, and the ids whose records the
\* handler keeps.
FilterGiven(status) == Truthy(status)
Matching(ts, status) ==
    {id \in DOMAIN ts : FilterGiven(status) => ts[id].status = status}

\* tasks.sort(key=lambda x: x.get("created_at", ""), reverse=True): the
\* records of the ids in S, newest created_at first. (created_at is the
\* time of the request, and no two requests are stored at the same time.)
RECURSIVE SortedByCreatedDesc(_, _)
SortedByCreatedDesc(ts, S) ==
    IF S = {} THEN << >>
    ELSE LET newest == CHOOSE id \in S :
                          \A o \in S : ts[o].created_at <= ts[id].created_at
         IN  <<ts[newest]>> \o SortedByCreatedDesc(ts, S \ {newest})

Min(a, b) == IF a <= b THEN a ELSE b
Max(a, b) == IF a >= b THEN a ELSE b

\* A slice that keeps the whole list.
SliceAll(seq, limit) == seq

\* The Python slice seq[:limit]: the first limit elements, and for a
\* negative limit all but the last -limit elements.
Slice(seq, limit) ==
    IF limit >= 0 THEN SubSeq(seq, 1, Min(limit, Len(seq)))
    ELSE SubSeq(seq, 1, Max(Len(seq) + limit, 0))

\* list_tasks: the response of GET /tasks.
list_tasks(ts, status, limit) ==
    LET tasks == Slice(SortedByCreatedDesc(ts, Matching(ts, status)), limit)
    IN  [code |-> 200, tasks |-> tasks, total |-> Len(tasks),
         processing |-> Cardinality({id \in DOMAIN ts : ts[id].status = PROCESSING})]

\* output_path = os.path.join("api_outputs", f"tts_{task_id}_{timestamp}.mp3"),
\* named here by the task id it is built from.
OutputPath(id) == id

\* ------------------------------------------------------------ the gateway
\* str(uuid.uuid4())[:8]: the ids the call can return in this state.
NewTaskIds ==
    {IdOrder[i] : i \in {j \in DOMAIN IdOrder :
                            \A l \in 1..(j - 1) : IdOrder[l] \in DOMAIN task_status}}

\* A handler without the LoRA validation.
LoraRejectedNever(k) == FALSE

\* `if request.lora_name and request.lora_name != "None"` and the
\* os.path.exists test: TRUE when the handler raises HTTPException(404).
LoraRejected(k) == Truthy(k) /\ k # "None" /\ ~LoraExists(k)

\* POST /synthesize with a lora_name that fails validation.
SubmitRejected(k) ==
    /\ Serving
    /\ th[Gateway].pc = "idle"
    /\ nreq < MaxTasks
    /\ LoraRejected(k)
    /\ nreq' = nreq + 1
    /\ http' = [code |-> 404, task_id |-> Absent, status |-> None]
    /\ UNCHANGED <<available_gpus, task_queue, task_status, current_models,
                   current_lora_paths, model_locks, th, lastDeq, unended>>

\* POST /synthesize past validation: the id is generated and the PENDING
\* record is written under task_lock.
SubmitCreate(k, async, id) ==
    /\ Serving
    /\ th[Gateway].pc = "idle"
    /\ nreq < MaxTasks
    /\ ~LoraRejected(k)
    /\ nreq' = nreq + 1
    /\ task_status' = CreateRecord(task_status, id, nreq + 1)
    /\ unended' = IF async THEN unended
                  ELSE [unended EXCEPT ![Gateway] = @ \cup {nreq + 1}]
    /\ th' = [th EXCEPT ![Gateway] =
                [IdleThread EXCEPT !.pc = IF async THEN "s_put" ELSE "p_start",
                                   !.task_id = id, !.lora = k,
                                   !.sub = nreq + 1,
                                   !.gpu_id = IF available_gpus # << >>
                                              THEN available_gpus[1] ELSE 0]]
    /\ http' = [code |-> 0, task_id |-> Absent, status |-> None]
    /\ UNCHANGED <<available_gpus, task_queue, current_models,
                   current_lora_paths, model_locks, lastDeq>>

\* queue.Queue.put
QueuePut(q, e) == Append(q, e)

\* async mode: task_queue.put((task_id, request.model_dump())) and the
\* "submitted" response.
SubmitPut ==
    /\ th[Gateway].pc = "s_put"
    /\ task_queue' = QueuePut(task_queue, [task_id |-> th[Gateway].task_id,
                                           lora |-> th[Gateway].lora,
                                           sub |-> th[Gateway].sub])
    /\ http' = [code |-> 200, task_id |-> th[Gateway].task_id, status |-> "submitted"]
    /\ th' = [th EXCEPT ![Gateway] = IdleThread]
    /\ UNCHANGED <<available_gpus, task_status, current_models,
                   current_lora_paths, model_locks, nreq, lastDeq, unended>>

\* ------------------------------------------------------------- the workers
\* A queue that returns its newest entry (queue.LifoQueue).
QueueGetLifo(q) == [item |-> q[Len(q)], rest |-> SubSeq(q, 1, Len(q) - 1)]

\* A get that returns the oldest entry and leaves it in the queue.
QueueGetKeep(q) == [item |-> Head(q), rest |-> q]

\* queue.Queue.get: the entry returned, and the queue left.
QueueGet(q) == [item |-> Head(q), rest |-> Tail(q)]

\* task_worker: task_queue.get(timeout=2.0) returns an entry; worker_id
\* w - 1 is bound to the gpu_id lifespan() passed it. (`if task_id:` holds
\* for every entry: ids are 8 hex digits.)
Dequeue(w) ==
    /\ w \in Workers
    /\ th[w].pc = "idle"
    /\ task_queue # << >>
    /\ LET e == QueueGet(task_queue).item IN
        /\ task_queue' = QueueGet(task_queue).rest
        /\ th' = [th EXCEPT ![w] =
                    [IdleThread EXCEPT !.pc = "p_start", !.task_id = e.task_id,
                                       !.lora = e.lora, !.sub = e.sub,
                                       !.gpu_id = available_gpus[w]]]
        /\ lastDeq' = e.sub
        /\ unended' = [unended EXCEPT ![w] = @ \cup {e.sub}]
    /\ UNCHANGED <<available_gpus, task_status, current_models,
                   current_lora_paths, model_locks, http, nreq>>

\* task_worker: the get times out (queue.Empty), `except Exception: continue`.
PollTimeout(w) ==
    /\ w \in Workers
    /\ th[w].pc = "idle"
    /\ task_queue = << >>
    /\ UNCHANGED vars

\* ---------------------------------------------------------- the model cache
\* A `with` that does not wait for the lock.
LockFreeNoWait(g) == g \in DOMAIN model_locks

\* threading.Lock: `with model_locks[gpu_id]` enters only when nobody is inside.
LockFree(g) == model_locks[g] = Free

\* A cache that is never hit: every call loads.
CacheHitNever(g, k) == FALSE

\* load_model_with_lora, lines 285-286: the cache-hit test.
CacheHit(g, k) == current_models[g].state = "obj" /\ k = LoraPathGet(g)

\* The weights VoxCPM.from_pretrained is given (lines 313-318): the LoRA
\* directory when the name is set and exists, else none.
LoadedWeights(k) == IF Truthy(k) /\ k # "None" /\ LoraExists(k) THEN k ELSE None

\* --------------------------------------------------- process_task_real(t)
\* One step of thread t: its locals change as `f` says. The locals hold
\* what the routine still reads: lora_name and model are dropped once
\* model.generate is over or the except clause is entered.
Locals(t, f) == th' = [th EXCEPT ![t] = f]
Goto(t, pc) == Locals(t, [th[t] EXCEPT !.pc = pc])
Progress(t, p) ==
    task_status' = update_task_status_safe(task_status, th[t].task_id, PROCESSING,
                                           p, None, None)

\* line 401: PROCESSING, progress 0.0
P_Start(t) ==
    /\ th[t].pc = "p_start"
    /\ Progress(t, 0)
    /\ Goto(t, "p_01")
    /\ UNCHANGED <<available_gpus, task_queue, current_models, current_lora_paths,
                   model_locks, http, nreq, lastDeq, unended>>

\* A line 405 that writes the milestone of line 414.
P_01Ahead(t) ==
    /\ th[t].pc = "p_01"
    /\ Progress(t, 2)
    /\ Goto(t, "l_acq")
    /\ UNCHANGED <<available_gpus, task_queue, current_models, current_lora_paths,
                   model_locks, http, nreq, lastDeq, unended>>

\* line 405: progress 0.1, written before load_model_with_lora is called
P_01(t) ==
    /\ th[t].pc = "p_01"
    /\ Progress(t, 1)
    /\ Goto(t, "l_acq")
    /\ UNCHANGED <<available_gpus, task_queue, current_models, current_lora_paths,
                   model_locks, http, nreq, lastDeq, unended>>

\* load_model_with_lora, line 283: enter `with model_locks[gpu_id]`
L_Acquire(t) ==
    /\ th[t].pc = "l_acq"
    /\ LockFree(th[t].gpu_id)
    /\ model_locks' = [model_locks EXCEPT ![th[t].gpu_id] = t]
    /\ Goto(t, "l_body")
    /\ UNCHANGED <<available_gpus, task_queue, task_status, current_models,
                   current_lora_paths, http, nreq, lastDeq, unended>>

\* A cache hit that returns without leaving `with model_locks[gpu_id]`.
L_HitKeepLock(t) ==
    /\ th[t].pc = "l_body"
    /\ CacheHit(th[t].gpu_id, th[t].lora)
    /\ Goto(t, "p_chk")
    /\ UNCHANGED <<available_gpus, task_queue, task_status, current_models,
                   current_lora_paths, model_locks, http, nreq, lastDeq, unended>>

\* lines 285-288: the model is cached with this LoRA; return (the lock is left)
L_Hit(t) ==
    /\ th[t].pc = "l_body"
    /\ CacheHit(th[t].gpu_id, th[t].lora)
    /\ model_locks' = [model_locks EXCEPT ![th[t].gpu_id] = Free]
    /\ Goto(t, "p_chk")
    /\ UNCHANGED <<available_gpus, task_queue, task_status, current_models,
                   current_lora_paths, http, nreq, lastDeq, unended>>

\* lines 290-324: no hit; the try block is entered and
\* VoxCPM.from_pretrained, the expensive load, is called
L_Begin(t) ==
    /\ th[t].pc = "l_body"
    /\ ~CacheHit(th[t].gpu_id, th[t].lora)
    /\ Goto(t, "l_load")
    /\ UNCHANGED <<available_gpus, task_queue, task_status, current_models,
                   current_lora_paths, model_locks, http, nreq, lastDeq, unended>>

\* A load that stores the model and leaves current_lora_paths as it is.
L_LoadOkNoKey(t) ==
    /\ th[t].pc = "l_load"
    /\ current_models' = [current_models EXCEPT
                            ![th[t].gpu_id] = LoadedModel(LoadedWeights(th[t].lora))]
    /\ model_locks' = [model_locks EXCEPT ![th[t].gpu_id] = Free]
    /\ Goto(t, "p_chk")
    /\ UNCHANGED <<available_gpus, task_queue, task_status, current_lora_paths,
                   http, nreq, lastDeq, unended>>

\* lines 325-339: the load succeeds and the cache entry is replaced
L_LoadOk(t) ==
    /\ th[t].pc = "l_load"
    /\ current_models' = [current_models EXCEPT
                            ![th[t].gpu_id] = LoadedModel(LoadedWeights(th[t].lora))]
    /\ current_lora_paths' = [current_lora_paths EXCEPT ![th[t].gpu_id] = th[t].lora]
    /\ model_locks' = [model_locks EXCEPT ![th[t].gpu_id] = Free]
    /\ Goto(t, "p_chk")
    /\ UNCHANGED <<available_gpus, task_queue, task_status, http, nreq, lastDeq, unended>>

\* An except clause that re-raises and leaves the cache as it is.
L_LoadFailKeep(t, e) ==
    /\ th[t].pc = "l_load"
    /\ model_locks' = [model_locks EXCEPT ![th[t].gpu_id] = Free]
    /\ th' = [th EXCEPT ![t] = [th[t] EXCEPT !.pc = "p_exc", !.exc = e, !.lora = None, !.model = Absent]]
    /\ UNCHANGED <<available_gpus, task_queue, task_status, current_models,
                   current_lora_paths, http, nreq, lastDeq, unended>>

\* lines 341-347: the load raises; keys that exist are set to None; re-raise
L_LoadFail(t, e) ==
    /\ th[t].pc = "l_load"
    /\ current_models' = [current_models EXCEPT ![th[t].gpu_id] =
                            IF @.state = "absent" THEN @ ELSE NoneModel]
    /\ current_lora_paths' = [current_lora_paths EXCEPT ![th[t].gpu_id] =
                            IF @ = Absent THEN @ ELSE None]
    /\ model_locks' = [model_locks EXCEPT ![th[t].gpu_id] = Free]
    /\ Locals(t, [th[t] EXCEPT !.pc = "p_exc", !.exc = e, !.lora = None, !.model = Absent])
    /\ UNCHANGED <<available_gpus, task_queue, task_status, http, nreq, lastDeq, unended>>

\* lines 409-412: current_models[gpu_id] is read again, outside the lock
P_CheckOk(t) ==
    /\ th[t].pc = "p_chk"
    /\ current_models[th[t].gpu_id].state = "obj"
    /\ Locals(t, [th[t] EXCEPT !.pc = "p_02",
                               !.model = current_models[th[t].gpu_id].lora])
    /\ UNCHANGED <<available_gpus, task_queue, task_status, current_models,
                   current_lora_paths, model_locks, http, nreq, lastDeq, unended>>

\* line 410: raise Exception(f"Failed to load model on GPU {gpu_id}")
P_CheckFail(t) ==
    /\ th[t].pc = "p_chk"
    /\ current_models[th[t].gpu_id].state # "obj"
    /\ Locals(t, [th[t] EXCEPT !.pc = "p_exc", !.exc = NotLoadedText, !.lora = None,
                               !.model = Absent])
    /\ UNCHANGED <<available_gpus, task_queue, task_status, current_models,
                   current_lora_paths, model_locks, http, nreq, lastDeq, unended>>

\* line 414: progress 0.2
P_02(t) ==
    /\ th[t].pc = "p_02"
    /\ Progress(t, 2)
    /\ Goto(t, "p_03")
    /\ UNCHANGED <<available_gpus, task_queue, current_models, current_lora_paths,
                   model_locks, http, nreq, lastDeq, unended>>

\* line 428: progress 0.3
P_03(t) ==
    /\ th[t].pc = "p_03"
    /\ Progress(t, 3)
    /\ Goto(t, "g_acq")
    /\ UNCHANGED <<available_gpus, task_queue, current_models, current_lora_paths,
                   model_locks, http, nreq, lastDeq, unended>>

\* line 431: enter `with model_locks[gpu_id]` for model.generate
G_Acquire(t) ==
    /\ th[t].pc = "g_acq"
    /\ LockFree(th[t].gpu_id)
    /\ model_locks' = [model_locks EXCEPT ![th[t].gpu_id] = t]
    /\ Goto(t, "g_run")
    /\ UNCHANGED <<available_gpus, task_queue, task_status, current_models,
                   current_lora_paths, http, nreq, lastDeq, unended>>

\* lines 432-439: model.generate returns; the lock is left
G_Ok(t) ==
    /\ th[t].pc = "g_run"
    /\ model_locks' = [model_locks EXCEPT ![th[t].gpu_id] = Free]
    /\ Locals(t, [th[t] EXCEPT !.pc = "p_08", !.lora = None, !.model = Absent])
    /\ UNCHANGED <<available_gpus, task_queue, task_status, current_models,
                   current_lora_paths, http, nreq, lastDeq, unended>>

\* A generate call whose exception leaves the lock held (no `with`).
G_FailKeepLock(t, e) ==
    /\ th[t].pc = "g_run"
    /\ th' = [th EXCEPT ![t] = [th[t] EXCEPT !.pc = "p_exc", !.exc = e, !.lora = None,
                                            !.model = Absent]]
    /\ UNCHANGED <<available_gpus, task_queue, task_status, current_models,
                   current_lora_paths, model_locks, http, nreq, lastDeq, unended>>

\* lines 432-439: model.generate raises; the lock is left
G_Fail(t, e) ==
    /\ th[t].pc = "g_run"
    /\ model_locks' = [model_locks EXCEPT ![th[t].gpu_id] = Free]
    /\ Locals(t, [th[t] EXCEPT !.pc = "p_exc", !.exc = e, !.lora = None, !.model = Absent])
    /\ UNCHANGED <<available_gpus, task_queue, task_status, current_models,
                   current_lora_paths, http, nreq, lastDeq, unended>>

\* line 441: progress 0.8
P_08(t) ==
    /\ th[t].pc = "p_08"
    /\ Progress(t, 8)
    /\ Goto(t, "p_done")
    /\ UNCHANGED <<available_gpus, task_queue, current_models, current_lora_paths,
                   model_locks, http, nreq, lastDeq, unended>>

\* lines 443-453: os.makedirs or reading model.tts_model.sample_rate raises
P_SaveFail(t, e) ==
    /\ th[t].pc = "p_done"
    /\ Locals(t, [th[t] EXCEPT !.pc = "p_exc", !.exc = e, !.lora = None, !.model = Absent])
    /\ UNCHANGED <<available_gpus, task_queue, task_status, current_models,
                   current_lora_paths, model_locks, http, nreq, lastDeq, unended>>

\* line 453: convert_to_mp3 returns, having written the file at output_path
\* (`written`) or having caught and logged the exception of sf.write,
\* AudioSegment.from_wav or export (lines 381-396); it never raises.
P_Convert(t, written) ==
    /\ th[t].pc = "p_done"
    /\ Locals(t, [th[t] EXCEPT !.pc = "p_fin", !.written = written])
    /\ UNCHANGED <<available_gpus, task_queue, task_status, current_models,
                   current_lora_paths, model_locks, http, nreq, lastDeq, unended>>

\* What process_task_real's return leaves: a worker is idle again, the sync
\* path holds the result dict (line 219), and the task leaves the history of
\* unended tasks if its record now holds a terminal status.
Return(t, result) ==
    /\ Locals(t, IF t = Gateway
                 THEN [IdleThread EXCEPT !.pc = "s_ret", !.result = result,
                                         !.task_id = th[t].task_id,
                                         !.sub = th[t].sub]
                 ELSE IdleThread)
    /\ unended' = [unended EXCEPT ![t] =
                    IF /\ th[t].task_id \in DOMAIN task_status'
                       /\ task_status'[th[t].task_id].status \in Terminal
                    THEN @ \ {th[t].sub} ELSE @]
    /\ UNCHANGED http

\* synthesize_speech, lines 221-227: the sync response, built from the result
\* dict after process_task_real has returned.
SyncReturn ==
    /\ th[Gateway].pc = "s_ret"
    /\ http' = [code |-> 200, task_id |-> th[Gateway].task_id,
                status |-> th[Gateway].result]
    /\ th' = [th EXCEPT ![Gateway] = IdleThread]
    /\ UNCHANGED <<available_gpus, task_queue, task_status, current_models,
                   current_lora_paths, model_locks, nreq, lastDeq, unended>>

\* A success path that writes progress 1.0 and the path but leaves the
\* status PROCESSING.
WriteCompletedNoStatus(ts, id) ==
    update_task_status_safe(ts, id, PROCESSING, 10, OutputPath(id), None)

\* lines 455-456: the status the success path writes, with progress 1.0 and
\* audio_path=output_path
WriteCompleted(ts, id) ==
    update_task_status_safe(ts, id, COMPLETED, 10, OutputPath(id), None)

\* An except clause that only logs.
WriteFailedSkip(ts, id, e) == ts

\* lines 462-463: the status the except clause writes, with error=str(e)
WriteFailed(ts, id, e) ==
    update_task_status_safe(ts, id, FAILED, NoProgress, None, e)

\* lines 455-459: COMPLETED is recorded, return
P_Done(t) ==
    /\ th[t].pc = "p_fin"
    /\ task_status' = WriteCompleted(task_status, th[t].task_id)
    /\ Return(t, "completed")
    /\ UNCHANGED <<available_gpus, task_queue, current_models, current_lora_paths,
                   model_locks, nreq, lastDeq>>

\* lines 461-465: except Exception: FAILED is recorded, return
P_Exc(t) ==
    /\ th[t].pc = "p_exc"
    /\ task_status' = WriteFailed(task_status, th[t].task_id, th[t].exc)
    /\ Return(t, "failed")
    /\ UNCHANGED <<available_gpus, task_queue, current_models, current_lora_paths,
                   model_locks, nreq, lastDeq>>

\* --------------------------------------------------------- the whole system
Next ==
    \/ \E k \in LoraNames : SubmitRejected(k)
    \/ \E k \in LoraNames, async \in BOOLEAN, id \in NewTaskIds : SubmitCreate(k, async, id)
    \/ SubmitPut
    \/ \E w \in Workers : Dequeue(w)
    \/ \E w \in Workers : PollTimeout(w)
    \/ \E t \in Threads : P_Start(t)
    \/ \E t \in Threads : P_01(t)
    \/ \E t \in Threads : L_Acquire(t)
    \/ \E t \in Threads : L_Hit(t)
    \/ \E t \in Threads : L_Begin(t)
    \/ \E t \in Threads : L_LoadOk(t)
    \/ \E t \in Threads, e \in SomeExcText : L_LoadFail(t, e)
    \/ \E t \in Threads : P_CheckOk(t)
    \/ \E t \in Threads : P_CheckFail(t)
    \/ \E t \in Threads : P_02(t)
    \/ \E t \in Threads : P_03(t)
    \/ \E t \in Threads : G_Acquire(t)
    \/ \E t \in Threads : G_Ok(t)
    \/ \E t \in Threads, e \in ExcTexts : G_Fail(t, e)
    \/ \E t \in Threads : P_08(t)
    \/ \E t \in Threads, e \in SomeExcText : P_SaveFail(t, e)
    \/ \E t \in Threads, written \in BOOLEAN : P_Convert(t, written)
    \/ \E t \in Threads : P_Done(t)
    \/ \E t \in Threads : P_Exc(t)
    \/ SyncReturn

Spec == Init /\ [][Next]_vars

\* The same server started on a host whose probe reports one id twice.
InitRepeatedIds == InitFrom({ProbeRepeatedIds})
SpecRepeatedIds == InitRepeatedIds /\ [][Next]_vars

\* The threads any discovery outcome starts.
AllWorkers == UNION {1..Len(StartupGpus(p)) : p \in ProbeOutcomes}

\* One step of worker w's loop (task_worker with process_task_real inlined).
WorkerStep(w) ==
    /\ w \in Workers
    /\ \/ Dequeue(w) \/ P_Start(w) \/ P_01(w) \/ L_Acquire(w) \/ L_Hit(w)
       \/ L_Begin(w) \/ L_LoadOk(w) \/ (\E e \in SomeExcText : L_LoadFail(w, e))
       \/ P_CheckOk(w) \/ P_CheckFail(w) \/ P_02(w) \/ P_03(w) \/ G_Acquire(w)
       \/ G_Ok(w) \/ (\E e \in ExcTexts : G_Fail(w, e)) \/ P_08(w) \/ P_Done(w)
       \/ (\E e \in SomeExcText : P_SaveFail(w, e)) \/ P_Exc(w)
       \/ (\E written \in BOOLEAN : P_Convert(w, written))

\* One step of a request the handler has accepted and not yet answered.
GatewayStep ==
    \/ SubmitPut
    \/ P_Start(Gateway) \/ P_01(Gateway) \/ L_Acquire(Gateway) \/ L_Hit(Gateway)
    \/ L_Begin(Gateway) \/ L_LoadOk(Gateway) \/ (\E e \in SomeExcText : L_LoadFail(Gateway, e))
    \/ P_CheckOk(Gateway) \/ P_CheckFail(Gateway) \/ P_02(Gateway) \/ P_03(Gateway)
    \/ G_Acquire(Gateway) \/ G_Ok(Gateway) \/ (\E e \in ExcTexts : G_Fail(Gateway, e))
    \/ P_08(Gateway) \/ P_Done(Gateway) \/ (\E e \in SomeExcText : P_SaveFail(Gateway, e))
    \/ P_Exc(Gateway) \/ SyncReturn
    \/ (\E written \in BOOLEAN : P_Convert(Gateway, written))

\* Threads that can run do run, and every load and inference call returns
\* or raises; new requests may stop arriving at any time.
FairSpec ==
    /\ Spec
    /\ WF_vars(GatewayStep)
    /\ \A w \in AllWorkers : WF_vars(WorkerStep(w))

\* ------------------------------------------------ the task store by itself
\* The operations on task_status, called in any order by one caller: thread 0
\* holds the last call, http the response of GET /tasks.
ListFilters == {None, "", PENDING, PROCESSING, COMPLETED, FAILED}
ListLimits == {-1, 0, 1, DefaultLimit}

\* The arguments process_task_real passes update_task_status_safe.
UpdateArgs(id) ==
    {[status |-> PROCESSING, progress |-> 0, audio_path |-> None, error |-> None],
     [status |-> PROCESSING, progress |-> 3, audio_path |-> None, error |-> None],
     [status |-> COMPLETED, progress |-> 10, audio_path |-> OutputPath(id), error |-> None]}
    \cup {[status |-> FAILED, progress |-> NoProgress, audio_path |-> None, error |-> e] :
             e \in ExcTexts}

NoResponse == [code |-> 0, task_id |-> Absent, status |-> None]

StoreInit == Init /\ Len(available_gpus) = 1

\* synthesize_speech, lines 189-202
StoreCreate(id) ==
    /\ nreq < MaxTasks
    /\ id \in NewTaskIds
    /\ task_status' = CreateRecord(task_status, id, nreq + 1)
    /\ nreq' = nreq + 1
    /\ th' = [th EXCEPT ![Gateway] = [pc |-> "created", task_id |-> id]]
    /\ http' = NoResponse
    /\ UNCHANGED <<available_gpus, task_queue, current_models, current_lora_paths,
                   model_locks, lastDeq, unended>>

\* update_task_status_safe, called for any id
StoreUpdate(id, a) ==
    /\ task_status' = update_task_status_safe(task_status, id, a.status, a.progress,
                                              a.audio_path, a.error)
    /\ th' = [th EXCEPT ![Gateway] = [pc |-> "updated", task_id |-> id, args |-> a]]
    /\ http' = NoResponse
    /\ UNCHANGED <<available_gpus, task_queue, current_models, current_lora_paths,
                   model_locks, nreq, lastDeq, unended>>

\* GET /tasks?status=...&limit=...
StoreList(status, limit) ==
    /\ http' = list_tasks(task_status, status, limit)
    /\ th' = [th EXCEPT ![Gateway] = [pc |-> "listed", status |-> status,
                                      limit |-> limit]]
    /\ UNCHANGED <<available_gpus, task_queue, task_status, current_models,
                   current_lora_paths, model_locks, nreq, lastDeq, unended>>

StoreNext ==
    \/ \E id \in TaskIds : StoreCreate(id)
    \/ \E id \in TaskIds : \E a \in UpdateArgs(id) : StoreUpdate(id, a)
    \/ \E status \in ListFilters, limit \in ListLimits : StoreList(status, limit)

StoreSpec == StoreInit /\ [][StoreNext]_vars

\* ------------------------------------------- load_model_with_lora by itself
\* The calls of load_model_with_lora that the processing threads make
\* (line 407), without the task around them. No request is answered here, and
\* http holds the process-wide facts that the load reads and writes:
\*   cuda     torch.cuda.is_available()
\*   visible  os.environ's CUDA_VISIBLE_DEVICES (Absent: not set)
\*   before   history: the value of `visible` when the process started
\* A thread's frame has the local old_cuda_visible besides the others.
VisibleAtStart == {Absent, "0,1"}

\* line 305: os.environ.get("CUDA_VISIBLE_DEVICES", "")
EnvironGet(v) == IF v = Absent THEN "" ELSE v

\* line 306: str(gpu_id)
Str(g) == IF g = 0 THEN "0" ELSE "1"

LoadFrame == ("old_cuda_visible" :> Absent) @@ IdleThread

EnvInit ==
    /\ \E p \in ProbeOutcomes, v \in VisibleAtStart :
          /\ available_gpus = StartupGpus(p)
          /\ http = [cuda |-> p.torch = "cuda", visible |-> v, before |-> v]
    /\ task_queue = << >>
    /\ task_status = << >>
    /\ current_models = [g \in GpuIds |-> NoModel]
    /\ current_lora_paths = [g \in GpuIds |-> Absent]
    /\ model_locks = [g \in GpuIds |-> Free]
    /\ th = [t \in Threads |-> LoadFrame]
    /\ nreq = 0
    /\ lastDeq = 0
    /\ unended = [t \in Threads |-> {}]

\* line 407: load_model_with_lora(lora_name, gpu_id) is called by the worker
\* of a GPU, or by the sync path for available_gpus[0] (line 218)
E_Call(t, k) ==
    /\ Serving
    /\ nreq < MaxTasks
    /\ th[t].pc = "idle"
    /\ Locals(t, [LoadFrame EXCEPT !.pc = "l_acq", !.lora = k,
                     !.gpu_id = IF t = Gateway THEN available_gpus[1]
                                ELSE available_gpus[t]])
    /\ nreq' = nreq + 1
    /\ UNCHANGED <<available_gpus, task_queue, task_status, current_models,
                   current_lora_paths, model_locks, http, lastDeq, unended>>

\* lines 290-306: no hit; with CUDA the current CUDA_VISIBLE_DEVICES is kept
\* in old_cuda_visible and str(gpu_id) is set; from_pretrained is called
E_Begin(t) ==
    /\ th[t].pc = "l_body"
    /\ ~CacheHit(th[t].gpu_id, th[t].lora)
    /\ Locals(t, [th[t] EXCEPT !.pc = "l_load",
                     !.old_cuda_visible = IF http.cuda THEN EnvironGet(http.visible)
                                          ELSE Absent])
    /\ http' = IF http.cuda THEN [http EXCEPT !.visible = Str(th[t].gpu_id)] ELSE http
    /\ UNCHANGED <<available_gpus, task_queue, task_status, current_models,
                   current_lora_paths, model_locks, nreq, lastDeq, unended>>

\* lines 325-339: the load succeeds; with CUDA old_cuda_visible is written
\* back; the cache entry is replaced
E_LoadOk(t) ==
    /\ th[t].pc = "l_load"
    /\ http' = IF http.cuda THEN [http EXCEPT !.visible = th[t].old_cuda_visible]
               ELSE http
    /\ current_models' = [current_models EXCEPT
                            ![th[t].gpu_id] = LoadedModel(LoadedWeights(th[t].lora))]
    /\ current_lora_paths' = [current_lora_paths EXCEPT ![th[t].gpu_id] = th[t].lora]
    /\ model_locks' = [model_locks EXCEPT ![th[t].gpu_id] = Free]
    /\ Locals(t, [th[t] EXCEPT !.pc = "p_chk", !.old_cuda_visible = Absent])
    /\ UNCHANGED <<available_gpus, task_queue, task_status, nreq, lastDeq, unended>>

\* The call has returned (lines 288, 339) or raised (line 347).
E_Return(t) ==
    /\ th[t].pc \in {"p_chk", "p_exc"}
    /\ Locals(t, LoadFrame)
    /\ UNCHANGED <<available_gpus, task_queue, task_status, current_models,
                   current_lora_paths, model_locks, http, nreq, lastDeq, unended>>

\* The except clause of lines 341-347 (L_LoadFail) writes the cache and
\* leaves os.environ as it is.
EnvNext ==
    \/ \E t \in Threads, k \in LoraNames : E_Call(t, k)
    \/ \E t \in Threads : L_Acquire(t)
    \/ \E t \in Threads : L_Hit(t)
    \/ \E t \in Threads : E_Begin(t)
    \/ \E t \in Threads : E_LoadOk(t)
    \/ \E t \in Threads, e \in SomeExcText : L_LoadFail(t, e)
    \/ \E t \in Threads : E_Return(t)

EnvSpec == EnvInit /\ [][EnvNext]_vars

\* ================================================================== claims
Busy(t) == th[t].pc \notin {"idle", "s_put"}

\* Thread t is inside a section guarded by model_locks[g]: the body of
\* load_model_with_lora or the model.generate call.
InLoad(t, g) == Busy(t) /\ th[t].gpu_id = g /\ th[t].pc \in {"l_body", "l_load"}
InGenerate(t, g) == Busy(t) /\ th[t].gpu_id = g /\ th[t].pc = "g_run"
InLockedSection(t, g) == InLoad(t, g) \/ InGenerate(t, g)

\* The moves the status protocol PENDING -> PROCESSING -> {COMPLETED, FAILED}
\* allows a record in one step.
StatusStepAllowed(a, b) ==
    \/ a = b
    \/ a = PENDING /\ b = PROCESSING
    \/ a = PROCESSING /\ b \in Terminal

\* C1: the status of every record only moves PENDING -> PROCESSING ->
\* COMPLETED or FAILED: never backward, and never again once it is COMPLETED
\* or FAILED, whatever operation runs (submit, update_task_status_safe, a
\* worker, the sync path).
C1_StatusOnlyMovesForward ==
    [][\A id \in DOMAIN task_status :
          /\ id \in DOMAIN task_status'
          /\ StatusStepAllowed(task_status[id].status, task_status'[id].status)]_vars

\* C2: for every GPU, at most one thread is inside a section guarded by the
\* GPU's lock: no two generate calls, no two loads, and no load and generate
\* call overlap, the sync path on a GPU and the worker of that GPU included.
C2_MutualExclusion ==
    \A g \in GpuIds : Cardinality({t \in Threads : InLockedSection(t, g)}) <= 1

\* C2 witness: the sync path is inside model.generate on the GPU whose worker
\* is waiting for the same lock.
C2_Witness ==
    \E w \in Workers :
        /\ InGenerate(Gateway, th[w].gpu_id)
        /\ th[w].pc \in {"l_acq", "g_acq"}

\* C3: from the start of a task's ensure-load step until its inference call
\* returns, the thread processing the task holds the lock of its GPU.
C3_LockHeldFromLoadToGenerate ==
    \A t \in Threads :
        th[t].pc \in {"l_body", "l_load", "p_chk", "p_02", "p_03", "g_acq", "g_run"}
            => model_locks[th[t].gpu_id] = t

NonTerminal(id) == id \in DOMAIN task_status /\ task_status[id].status \notin Terminal
IsTerminal(id) == id \in DOMAIN task_status /\ task_status[id].status \in Terminal
QueuedSubs == {task_queue[i].sub : i \in DOMAIN task_queue}

\* C4: with threads that keep running and load and inference calls that
\* return or raise, every queued entry is eventually dequeued and every
\* record that is PENDING or PROCESSING eventually is COMPLETED or FAILED.
C4_EveryTaskEventuallyTerminal ==
    /\ \A id \in TaskIds : NonTerminal(id) ~> IsTerminal(id)
    /\ \A n \in 1..MaxTasks : (n \in QueuedSubs) ~> (lastDeq >= n /\ n \notin QueuedSubs)

\* C4 witness: two async tasks were queued, dequeued and processed to a
\* terminal status, and nothing is left to do.
C4_Witness ==
    /\ nreq >= 2 /\ lastDeq = nreq
    /\ task_queue = << >>
    /\ \A t \in Threads : th[t].pc = "idle"
    /\ Cardinality(DOMAIN task_status) >= 2
    /\ \A id \in DOMAIN task_status : IsTerminal(id)

\* C5: the id of every successful response and the id of every entry of the
\* dispatch queue has a record in the task store.
C5_ReturnedAndQueuedIdsHaveRecords ==
    /\ http.code = 200 => http.task_id \in DOMAIN task_status
    /\ \A i \in DOMAIN task_queue : task_queue[i].task_id \in DOMAIN task_status

\* C5 witness: an async submission has returned its id and its entry is
\* still queued, behind another entry.
C5_Witness ==
    /\ http.code = 200 /\ http.status = "submitted"
    /\ Len(task_queue) >= 2
    /\ task_queue[Len(task_queue)].task_id = http.task_id

\* lora_name names a configuration, and the configuration does not exist.
NamesMissingConfiguration(k) == k \in LoraNames \ {None} /\ ~LoraExists(k)

\* C6: a request is answered 404 without any effect on the task store, the
\* queue, the model cache, the locks or the threads, and a request that is
\* not answered 404 never carries a lora_name whose configuration is missing.
C6_UnknownLoraRejectedWithoutEffect ==
    [][nreq' = nreq + 1 =>
          /\ http'.code = 404 =>
                UNCHANGED <<task_status, task_queue, current_models,
                            current_lora_paths, model_locks, th, available_gpus>>
          /\ http'.code # 404 => ~NamesMissingConfiguration(th'[Gateway].lora)]_vars

\* C6 witness: a request was just rejected while a task is being processed.
C6_Witness ==
    /\ http.code = 404
    /\ DOMAIN task_status # {}
    /\ \E w \in Workers : Busy(w) /\ th[w].pc = "g_run"

\* C7: when a worker has written PROCESSING for a task, every task it
\* dequeued before has its terminal status written; and with one GPU and no
\* sync call in progress (so whenever all submissions are async) at most one
\* record is PROCESSING.
C7_FifoPerWorker ==
    /\ \A w \in Workers :
          th[w].pc \notin {"idle", "p_start"} => unended[w] \subseteq {th[w].sub}
    /\ (Len(available_gpus) = 1 /\ ~Busy(Gateway)) =>
          Cardinality({id \in DOMAIN task_status :
                          task_status[id].status = PROCESSING}) <= 1

\* C7 witness: the worker of GPU 1 processes the second task on a GPU that
\* holds the model its first task loaded (the sync path only uses the first
\* GPU of the list).
C7_Witness ==
    /\ Len(available_gpus) = 2
    /\ th[2].pc = "l_acq" /\ th[2].sub = 2
    /\ task_status[th[2].task_id].status = PROCESSING
    /\ current_models[available_gpus[2]].state = "obj"
    /\ unended[2] = {2}

\* C8: entries leave the dispatch queue in the order of their submission:
\* the queue is ordered by request number and no queued entry is older than
\* an entry a worker has taken.
C8_GlobalFifoDequeue ==
    /\ \A i \in DOMAIN task_queue : task_queue[i].sub > lastDeq
    /\ \A i, j \in DOMAIN task_queue : i < j => task_queue[i].sub < task_queue[j].sub

\* C8 witness: two workers hold the first two entries and the second entry
\* was taken last.
C8_Witness ==
    /\ Len(available_gpus) = 2
    /\ Busy(1) /\ Busy(2)
    /\ {th[1].sub, th[2].sub} = {1, 2}
    /\ lastDeq = 2

\* C9: a processing that raised (load, model check or inference) ends with
\* the record FAILED: the step that leaves the except clause returns and
\* leaves the status FAILED, and it is the only step out of it.
C9_RaiseEndsFailed ==
    [][\A t \in Threads :
          (th[t].pc = "p_exc" /\ th'[t] # th[t]) =>
              /\ th'[t].pc \in {"idle", "s_ret"}
              /\ th[t].task_id \in DOMAIN task_status'
              /\ task_status'[th[t].task_id].status = FAILED]_vars

\* C9 witness: on a single GPU a task failed and the task submitted after it,
\* dequeued last, was processed to COMPLETED on the same GPU.
C9_Witness ==
    /\ Len(available_gpus) = 1
    /\ \E a, b \in DOMAIN task_status :
          /\ task_status[a].status = FAILED
          /\ task_status[b].status = COMPLETED
          /\ task_status[a].created_at < task_status[b].created_at
          /\ task_status[b].created_at = lastDeq

\* C10: a COMPLETED record has an audio_path and no error, and a FAILED
\* record has a non-empty error and no audio_path.
C10_TerminalCarriesExactlyOne ==
    \A id \in DOMAIN task_status :
        /\ task_status[id].status = COMPLETED =>
              (Truthy(task_status[id].audio_path) /\ task_status[id].audio_path # Absent
                  /\ task_status[id].error = Absent)
        /\ task_status[id].status = FAILED =>
              (Truthy(task_status[id].error) /\ task_status[id].error # Absent
                  /\ task_status[id].audio_path = Absent)

\* C11: a sync-mode submission never puts an entry on the dispatch queue, and
\* when it returns the record of its id holds a terminal status, the one the
\* response carries.
C11_SyncReturnsTerminalUnqueued ==
    /\ th[Gateway].pc \notin {"idle", "s_put"} =>
          /\ th[Gateway].sub \notin QueuedSubs
          /\ th[Gateway].sub # lastDeq
    /\ th[Gateway].pc = "s_ret" =>
          /\ IsTerminal(th[Gateway].task_id)
          /\ task_status[th[Gateway].task_id].status = th[Gateway].result

\* C12: resource discovery returns a list that is not empty and never fails,
\* whatever the probes report (torch missing, a probe raising, no device
\* reported), so startup always leaves at least one worker.
C12_DiscoveryNeverEmptyNorFails ==
    /\ available_gpus # << >>
    /\ Workers # {}

\* C13: when load_model_with_lora(k, g) has succeeded, the cache of g holds a
\* model under key k, and a call with the same k that finds the cache so is a
\* hit: it returns without calling the expensive load and leaves the cached
\* model and key as they are. Two calls in a row with one k load once.
C13_SecondLoadIsCacheHit ==
    [][\A t \in Threads :
          LET g == th[t].gpu_id
              k == th[t].lora
          IN  /\ (th[t].pc = "l_load" /\ th'[t].pc = "p_chk") =>
                    /\ current_models'[g].state = "obj"
                    /\ current_lora_paths'[g] = k
              /\ ( /\ th[t].pc = "l_body" /\ th'[t] # th[t]
                   /\ current_models[g].state = "obj"
                   /\ current_lora_paths[g] = k ) =>
                    /\ th'[t].pc = "p_chk"
                    /\ current_models'[g] = current_models[g]
                    /\ current_lora_paths'[g] = current_lora_paths[g]]_vars

\* C13 witness: GPU 1 has only its worker; the worker loaded a model there for
\* the first task, which is COMPLETED, and its call for the second task is
\* at the hit test with that model cached under the second task's key.
C13_Witness ==
    /\ Len(available_gpus) = 2
    /\ current_models[available_gpus[1]].state = "absent"
    /\ th[2].pc = "l_body" /\ th[2].sub = 2
    /\ current_models[th[2].gpu_id].state = "obj"
    /\ current_lora_paths[th[2].gpu_id] = th[2].lora
    /\ \E a \in DOMAIN task_status :
          a # th[2].task_id /\ task_status[a].status = COMPLETED

\* The progress values process_task_real writes, in tenths, in its order.
ProgressSteps == <<0, 1, 2, 3, 8, 10>>

\* C14: the progress of a record never decreases and stays within [0, 1]
\* while the record lives, and it moves through 0.0, 0.1, 0.2, 0.3, 0.8, 1.0 in
\* this order, one value at a time, with 1.0 on every COMPLETED record; for
\* async and sync tasks alike.
C14_ProgressMonotoneInOrder ==
    [][\A id \in DOMAIN task_status' :
          LET new == task_status'[id] IN
          /\ new.progress \in {ProgressSteps[i] : i \in DOMAIN ProgressSteps}
          /\ new.status = COMPLETED => new.progress = 10
          /\ (id \in DOMAIN task_status /\ task_status[id].created_at = new.created_at) =>
                \/ new.progress = task_status[id].progress
                \/ \E i \in 1..(Len(ProgressSteps) - 1) :
                      /\ task_status[id].progress = ProgressSteps[i]
                      /\ new.progress = ProgressSteps[i + 1]]_vars

\* C15: no operation removes a record from the task store: the set of ids
\* that have a record only grows.
C15_RecordsAreNeverRemoved ==
    [][DOMAIN task_status \subseteq DOMAIN task_status']_vars

\* C15 witness: the record of the first request, COMPLETED, is still there
\* after a second request was stored under another id and ended FAILED.
C15_Witness ==
    /\ nreq = 2
    /\ \E a, b \in DOMAIN task_status :
          /\ task_status[a].created_at = 1 /\ task_status[a].status = COMPLETED
          /\ task_status[b].created_at = 2 /\ task_status[b].status = FAILED

\* C16: creating a record for an id that has a record already fails and
\* leaves the record as it is: a submission changes no record that exists.
C16_CreateNeverReplaces ==
    [][nreq' # nreq =>
          \A id \in DOMAIN task_status :
              id \in DOMAIN task_status' /\ task_status'[id] = task_status[id]]_vars

\* C17: a status update for an id that has no record is a no-op: it makes no
\* record and changes none (and update_task_status_safe raises nothing).
C17_UpdateOfUnknownIdIsNoOp ==
    [][(th'[Gateway].pc = "updated" /\ th'[Gateway].task_id \notin DOMAIN task_status)
          => task_status' = task_status]_vars

\* C17 witness: update_task_status_safe was called for an id without a
\* record while the store holds the PROCESSING record of another id.
C17_Witness ==
    /\ th[Gateway].pc = "updated"
    /\ th[Gateway].task_id \notin DOMAIN task_status
    /\ \E id \in DOMAIN task_status : task_status[id].status = PROCESSING

\* What C18 says of a response to list(status, limit) that is to hold at
\* most n records: they are the n newest records that match the filter (all
\* of them when there are fewer), newest first.
ListsNewest(n) ==
    LET r == http.tasks
        m == Matching(task_status, th[Gateway].status)
    IN  /\ \A i \in DOMAIN r : \E id \in m : r[i] = task_status[id]
        /\ \A i, j \in DOMAIN r : i < j => r[i].created_at > r[j].created_at
        /\ Len(r) = Min(n, Cardinality(m))
        /\ \A id \in m : \A i \in DOMAIN r :
              task_status[id].created_at <= r[i].created_at
                  \/ \E j \in DOMAIN r : r[j] = task_status[id]

\* C18 as claimed: list(status, limit) returns only records whose status
\* equals the filter (all records without a filter), most recently created
\* first, at most limit of them, these being the most recent matching
\* records; for whatever limit, so none for a limit below 0.
C18_ListFilteredNewestFirstAtMostLimit ==
    th[Gateway].pc = "listed" => ListsNewest(Max(th[Gateway].limit, 0))

\* C18, amended: the same for every limit that is 0 or more.
C18_ListForNonNegativeLimit ==
    (th[Gateway].pc = "listed" /\ th[Gateway].limit >= 0)
        => ListsNewest(th[Gateway].limit)

\* C18 witness: of two COMPLETED records and the filter "completed", limit 1
\* returned the one created last.
C18_Witness ==
    /\ th[Gateway].pc = "listed"
    /\ th[Gateway].status = COMPLETED /\ th[Gateway].limit = 1
    /\ Cardinality(Matching(task_status, COMPLETED)) = 2
    /\ Len(http.tasks) = 1 /\ http.tasks[1].created_at = 2

\* C19: a load on GPU g that fails leaves load_model_with_lora with the
\* error handed to the caller, the lock free and the cache of g cleared (no
\* model, no key), so that the next call for g, whatever its key, is no hit
\* and loads anew.
C19_FailedLoadClearsCache ==
    [][\A t \in Threads :
          LET g == th[t].gpu_id IN
          (th[t].pc = "l_load" /\ th'[t].pc # "l_load") =>
              \/ th'[t].pc = "p_chk"
              \/ /\ th'[t].pc = "p_exc"
                 /\ th'[t].exc \in ExcTexts
                 /\ current_models'[g].state \in {"absent", "none"}
                 /\ current_lora_paths'[g] \in {Absent, None}
                 /\ model_locks'[g] = Free
                 /\ \A k \in LoraNames :
                       ~(current_models'[g].state = "obj" /\ k = current_lora_paths'[g])]_vars

\* C19 witness: on the only GPU the load of one task failed (FAILED at
\* progress 0.1 with the load's message), and the cache holds the model that
\* the load of the other task, COMPLETED, put there afterwards.
C19_Witness ==
    /\ Len(available_gpus) = 1
    /\ current_models[available_gpus[1]].state = "obj"
    /\ \E a, b \in DOMAIN task_status :
          /\ a # b
          /\ task_status[a].status = FAILED /\ task_status[a].progress = 1
          /\ task_status[a].error = "err"
          /\ task_status[b].status = COMPLETED

\* C20: an error raised while one task is processed takes no other task to
\* FAILED: a processing raises only when its own load, its own inference or
\* its own save raised, never because the model it has ensured is gone.
C20_ErrorsStayWithTheirTask ==
    \A t \in Threads : th[t].pc = "p_exc" => th[t].exc \in ExcTexts

\* C21: after a task has failed, for whatever reason, the worker that
\* processed it is back in its loop, ready for the next entry, and holds no
\* model lock: a failure ends no worker and leaves no lock held.
C21_WorkerSurvivesFailure ==
    [][\A w \in Workers :
          (th[w].pc = "p_exc" /\ th'[w] # th[w]) =>
              /\ th'[w] = IdleThread
              /\ \A g \in DOMAIN model_locks :
                    model_locks[g] # w /\ model_locks'[g] # w]_vars

\* C21 witness: the load of worker 2 failed on its own GPU, whose cache it
\* had filled before; the task is FAILED, the worker waits for the next
\* entry and the lock of its GPU is free.
C21_Witness ==
    /\ Len(available_gpus) = 2 /\ available_gpus[1] # available_gpus[2]
    /\ current_models[available_gpus[2]].state = "none"
    /\ th[2].pc = "idle"
    /\ model_locks[available_gpus[2]] = Free
    /\ \E id \in DOMAIN task_status : task_status[id].status = FAILED

\* C22: an entry of the dispatch queue is taken once, by one worker, and is
\* never put back: no two queue entries and no two threads carry the same
\* request, no request is both queued and being processed, and no request
\* that a worker has taken (ended FAILED or not) is in the queue again.
C22_EntryTakenOnceNeverRequeued ==
    /\ \A i, j \in DOMAIN task_queue : i # j => task_queue[i].sub # task_queue[j].sub
    /\ \A t, u \in Threads : (t # u /\ Busy(t) /\ Busy(u)) => th[t].sub # th[u].sub
    /\ \A t \in Threads : Busy(t) => th[t].sub \notin QueuedSubs
    /\ \A n \in QueuedSubs : n > lastDeq
    /\ \A t \in Threads : \A n \in unended[t] : n \notin QueuedSubs

\* C22 witness: the first request was taken by a worker and ended FAILED;
\* the queue holds the second request and nothing else.
C22_Witness ==
    /\ lastDeq = 1
    /\ \A t \in Threads : th[t].pc = "idle"
    /\ Len(task_queue) = 1 /\ task_queue[1].sub = 2
    /\ \E id \in DOMAIN task_status :
          /\ id # task_queue[1].task_id
          /\ task_status[id].status = FAILED /\ task_status[id].created_at = 1

\* C23: a status update for id t changes, in the record of t, nothing but the
\* status and the fields the call supplies, and it changes no other record.
C23_UpdateChangesOnlySuppliedFields ==
    [][th'[Gateway].pc = "updated" =>
          LET t == th'[Gateway].task_id
              a == th'[Gateway].args
          IN  /\ DOMAIN task_status' = DOMAIN task_status
              /\ \A x \in DOMAIN task_status :
                    IF x # t THEN task_status'[x] = task_status[x]
                    ELSE /\ task_status'[x].created_at = task_status[x].created_at
                         /\ a.progress = NoProgress =>
                               task_status'[x].progress = task_status[x].progress
                         /\ a.audio_path = None =>
                               task_status'[x].audio_path = task_status[x].audio_path
                         /\ a.error = None =>
                               task_status'[x].error = task_status[x].error]_vars

\* C23 witness: the last call gave a COMPLETED record the status FAILED and an
\* error; progress 1.0 and the audio_path, which it did not supply, are
\* still there, and so is the PENDING record of the other id.
C23_Witness ==
    /\ th[Gateway].pc = "updated"
    /\ th[Gateway].args.status = FAILED /\ th[Gateway].args.error = "err"
    /\ th[Gateway].task_id \in DOMAIN task_status
    /\ LET r == task_status[th[Gateway].task_id]
       IN  r.status = FAILED /\ r.error = "err" /\ r.progress = 10
              /\ r.audio_path = OutputPath(th[Gateway].task_id)
    /\ \E o \in DOMAIN task_status :
          o # th[Gateway].task_id /\ task_status[o].status = PENDING

\* Thread t holds the lock of a GPU.
HoldsModelLock(t) == \E g \in DOMAIN model_locks : model_locks[g] = t

\* C24: a thread that puts an entry into the dispatch queue or takes one
\* out holds no lock, neither the lock of a GPU nor the task store's (its
\* step reads and writes no record), and a thread inside a model load or an
\* inference call does not hold the task store's lock (its step writes no
\* record).
C24_NoLockAcrossQueueOrModelCall ==
    [][/\ \A w \in Workers : th[w].pc = "idle" => ~HoldsModelLock(w)
       /\ task_queue' # task_queue =>
             /\ task_status' = task_status
             /\ \A t \in Threads :
                   th'[t] # th[t] => ~HoldsModelLock(t) /\ ~HoldsModelLock(t)'
       /\ \A t \in Threads :
             (th[t].pc \in {"l_body", "l_load", "g_run"} /\ th'[t] # th[t]) =>
                 task_status' = task_status]_vars

\* C24 witness: the gateway has put an entry into the queue while a worker
\* was inside model.generate, holding the lock of its GPU.
C24_Witness ==
    /\ http.code = 200 /\ http.status = "submitted"
    /\ Len(task_queue) = 1 /\ task_queue[1].task_id = http.task_id
    /\ \E w \in Workers : th[w].pc = "g_run" /\ model_locks[th[w].gpu_id] = w

\* C25: the pool has one worker for each resource id that was discovered
\* and no two workers are bound to the same id; the binding is the one made
\* at startup for as long as the server runs.
C25_OneWorkerPerResource ==
    /\ \A i, j \in Workers : i # j => available_gpus[i] # available_gpus[j]
    /\ Cardinality(Workers) = Cardinality(GpuIds)
    /\ \A w \in Workers : Busy(w) => th[w].gpu_id = available_gpus[w]

\* C29: a record is written COMPLETED with its audio_path only by a
\* processing whose convert/persist step wrote the file at that path; a
\* conversion that failed is followed by the error path, not by the
\* COMPLETED write.
C29_CompletedOnlyIfArtifactWritten ==
    [][\A t \in Threads :
          /\ (th[t].pc = "p_done" /\ th'[t].pc = "p_fin") => th'[t].written
          /\ ( /\ th[t].pc = "p_fin"
               /\ th'[t] # th[t]
               /\ th[t].task_id \in DOMAIN task_status'
               /\ task_status'[th[t].task_id].status = COMPLETED
               /\ task_status'[th[t].task_id].audio_path = OutputPath(th[t].task_id) )
             => th[t].written]_vars

\* C26: a record's progress is raised to 0.1 or more only by a processing
\* whose ensure-load (load_model_with_lora, then the check of lines 409-412)
\* has completed successfully.
C26_ProgressAfterEnsureLoad ==
    [][\A t \in Threads :
          ( /\ th'[t] # th[t]
            /\ th[t].task_id \in DOMAIN task_status
            /\ th[t].task_id \in DOMAIN task_status'
            /\ task_status'[th[t].task_id].progress # task_status[th[t].task_id].progress
            /\ task_status'[th[t].task_id].progress >= 1 )
          => th[t].pc \in {"p_02", "p_03", "g_acq", "g_run", "p_08", "p_done", "p_fin"}]_vars

\* C26, amended: progress 0.1 is written before ensure-load is called (it
\* says that loading begins); a record's progress is set to 0.2 or more only
\* by a processing whose ensure-load has completed successfully, and 0.2
\* itself by one that holds the model it read from the cache.
C26_ProgressFrom02AfterEnsureLoad ==
    [][\A t \in Threads :
          ( /\ th'[t] # th[t]
            /\ th[t].task_id \in DOMAIN task_status
            /\ th[t].task_id \in DOMAIN task_status'
            /\ task_status'[th[t].task_id].progress # task_status[th[t].task_id].progress )
          => LET p == task_status'[th[t].task_id].progress IN
             /\ p = 1 => th[t].pc = "p_01" /\ th[t].model = Absent
             /\ p >= 2 =>
                   th[t].pc \in {"p_02", "p_03", "g_acq", "g_run", "p_08", "p_done", "p_fin"}
             /\ p = 2 => th[t].pc = "p_02" /\ th[t].model # Absent]_vars

\* One processing has written 0.2 after its load; another task's load failed
\* and left its record FAILED at 0.1.
C26_Witness ==
    \E t \in Threads, id \in DOMAIN task_status :
        /\ th[t].pc = "p_03"
        /\ th[t].model # Absent
        /\ task_status[th[t].task_id].progress = 2
        /\ id # th[t].task_id
        /\ task_status[id].status = FAILED
        /\ task_status[id].progress = 1
        /\ task_status[id].error = "err"

\* C27: whenever the lock of GPU g is free, and whenever a thread that has
\* just taken it tests the cache, the entry of g is consistent: no model and
\* no key; or a cleared model and a cleared key; or one model object and the
\* key it was loaded with.
C27_CacheEntryConsistent ==
    \A g \in DOMAIN model_locks :
        (LockFree(g) \/ th[model_locks[g]].pc = "l_body") =>
            \/ current_models[g].state = "absent" /\ current_lora_paths[g] = Absent
            \/ current_models[g].state = "none" /\ current_lora_paths[g] = None
            \/ /\ current_models[g].state = "obj"
               /\ current_lora_paths[g] # Absent
               /\ current_models[g].lora = LoadedWeights(current_lora_paths[g])

\* A load with LoRA "A" has just returned on a GPU whose lock is free again.
C27_Witness ==
    \E t \in Threads :
        /\ th[t].pc = "p_chk"
        /\ th[t].lora = "A"
        /\ LockFree(th[t].gpu_id)
        /\ current_models[th[t].gpu_id] = LoadedModel("A")
        /\ current_lora_paths[th[t].gpu_id] = "A"
        /\ \E id \in DOMAIN task_status : task_status[id].status = COMPLETED

\* C28: whenever a processing is inside model.generate, the model object it
\* calls was loaded with the weights of its task's lora_name.
C28_GenerateUsesRequestedLora ==
    \A t \in Threads :
        th[t].pc = "g_run" => th[t].model = LoadedWeights(th[t].lora)

\* C30: the number of records in status PROCESSING never exceeds
\* max_concurrent_tasks, the number of GPUs (lifespan, line 65).
C30_ProcessingAtMostResources ==
    Cardinality({id \in DOMAIN task_status : task_status[id].status = PROCESSING})
        <= Len(available_gpus)

\* C32: in every state a record has progress 1.0 exactly when its status is
\* COMPLETED; a FAILED record's progress is a milestone below 1.0 and a
\* PENDING record's progress is 0.0.
C32_FullProgressIffCompleted ==
    \A id \in DOMAIN task_status :
        /\ task_status[id].progress = 10 <=> task_status[id].status = COMPLETED
        /\ task_status[id].status = FAILED => task_status[id].progress \in {0, 1, 2, 3, 8}
        /\ task_status[id].status = PENDING => task_status[id].progress = 0

\* C31: no thread holds two GPU locks, and no thread writes the task store
\* (takes task_lock) while it holds a GPU lock; with load and inference
\* calls that return or raise, every thread that waits for a GPU lock, in
\* load_model_with_lora or before model.generate, gets it.
C31_NoDeadlock ==
    /\ [](\A t \in Threads :
             Cardinality({g \in DOMAIN model_locks : model_locks[g] = t}) <= 1)
    /\ [][\A t \in Threads :
             (th'[t] # th[t] /\ task_status' # task_status) => ~HoldsModelLock(t)]_vars
    /\ \A t \in {Gateway} \cup AllWorkers :
          (t \in Threads /\ th[t].pc = "l_acq") ~> (t \in Threads /\ th[t].pc = "l_body")
    /\ \A t \in {Gateway} \cup AllWorkers :
          (t \in Threads /\ th[t].pc = "g_acq") ~> (t \in Threads /\ th[t].pc = "g_run")

\* The sync path waits for the lock of GPU available_gpus[0] while the
\* worker of that GPU is inside model.generate, and another thread waits
\* behind a load.
C31_Witness ==
    /\ th[Gateway].pc = "g_acq"
    /\ th[1].pc = "g_run"
    /\ model_locks[available_gpus[1]] = 1
    /\ th[Gateway].gpu_id = available_gpus[1]

\* C33: once every load_model_with_lora call that was started has returned
\* or raised, CUDA_VISIBLE_DEVICES has the value it had before the calls.
C33_VisibleDevicesRestored ==
    (\A t \in Threads : th[t].pc = "idle") => http.visible = http.before
====
